---------------------------- MODULE Spec2Model ----------------------------
(***************************************************************************)
(* githubwikipageindex: insert_page_index and generate_page_index of       *)
(* src/src/githubwikipageindex/__init__.py as a state machine.             *)
(*                                                                         *)
(* Text is a sequence of atoms.  An atom is a string that stands for the   *)
(* characters it spells: "\n" is the newline, " " a space, "A" a letter,   *)
(* "Home" or "md" a run of letters, StartText and EndText the two marker   *)
(* comments without their newline.  Concatenation, line splitting, prefix  *)
(* tests and comparison are computed atom by atom, as the code computes    *)
(* them character by character; the atoms are chosen so that no atom is a  *)
(* prefix of another atom that can stand at the same place.                *)
(*                                                                         *)
(* Environment: file names hold no newline; contents are the text the      *)
(* text-mode reads of the code deliver; standard input, which fileinput    *)
(* falls back to when the list of files is empty, is at end of file.       *)
(***************************************************************************)
EXTENDS Naturals, Sequences, FiniteSets, TLC

NL == "\n"
SP == " "
StartText == "<!--start Page Index-->"
EndText == "<!--end Page Index-->"

\* src line 21 and line 22
start_marker == <<StartText, NL>>
end_marker == <<EndText, NL>>

UNTAGGED == <<"untagged">>

HomeMd == <<"Home", ".", "md">>
HomeMdOld == <<"Home", ".", "md", ".", "old">>

--------------------------------------------------------------------------
(* Characters *)

\* The atoms that spell exactly one character.
OneChar == {NL, SP, ".", "-", "_", "#", "[", ")", "A", "B", "C", "X", "a", "b", "x"}

\* The code point of the first character of an atom; the two markers share
\* "<!--" and differ at the next character, "e" before "s".
CodePoint(a) ==
    CASE a = NL -> 10
      [] a = SP -> 32
      [] a = "#" -> 35
      [] a = ")" -> 41
      [] a = "-" -> 45
      [] a = "." -> 46
      [] a = EndText -> 60
      [] a = StartText -> 61
      [] a = "A" -> 65
      [] a = "B" -> 66
      [] a = "C" -> 67
      [] a = "Footer" -> 70
      [] a = "Home" -> 72
      [] a = "Sidebar" -> 83
      [] a = "Tags:" -> 84
      [] a = "X" -> 88
      [] a = "[" -> 91
      [] a = "_" -> 95
      [] a = "a" -> 97
      [] a = "b" -> 98
      [] a = "md" -> 109
      [] a = "old" -> 111
      [] a = "untagged" -> 117
      [] a = "x" -> 120
      [] OTHER -> 200

\* Python's str comparison s < t
RECURSIVE StrLess(_, _)
StrLess(s, t) ==
    IF t = <<>> THEN FALSE
    ELSE IF s = <<>> THEN TRUE
    ELSE IF Head(s) = Head(t) THEN StrLess(Tail(s), Tail(t))
    ELSE CodePoint(Head(s)) < CodePoint(Head(t))

\* Mutant: the list sorted in descending order
RECURSIVE sorted_desc(_)
sorted_desc(S) ==
    IF S = {} THEN <<>>
    ELSE LET m == CHOOSE x \in S : \A y \in S \ {x} : StrLess(y, x)
         IN  <<m>> \o sorted_desc(S \ {m})

\* sorted(list(S)) of a set of strings
RECURSIVE sorted(_)
sorted(S) ==
    IF S = {} THEN <<>>
    ELSE LET m == CHOOSE x \in S : \A y \in S \ {x} : StrLess(x, y)
         IN  <<m>> \o sorted(S \ {m})

\* The concatenation of a sequence of texts
RECURSIVE Concat(_)
Concat(ss) == IF ss = <<>> THEN <<>> ELSE Head(ss) \o Concat(Tail(ss))

--------------------------------------------------------------------------
(* Text files *)

\* The index of the last atom of the line that starts at index i
RECURSIVE LineEnd(_, _)
LineEnd(t, i) ==
    IF i >= Len(t) THEN Len(t)
    ELSE IF t[i] = NL THEN i
    ELSE LineEnd(t, i + 1)

\* file.readline() with pos atoms already read: the next line with its
\* newline, the unterminated rest at the end of the file, "" at EOF.
readline(t, pos) == SubSeq(t, pos + 1, LineEnd(t, pos + 1))

\* file.write(s) at position pos of a file holding t
write(t, pos, s) == SubSeq(t, 1, pos) \o s \o SubSeq(t, pos + Len(s) + 1, Len(t))

--------------------------------------------------------------------------
(* The exclusion pattern, src lines 13-15 *)

Bol == [t |-> "bol"]
Eol == [t |-> "eol"]
AnyChar == [t |-> "any"]
AnyStar == [t |-> "anystar"]
Lit(a) == [t |-> "lit", a |-> a]

\* Mutant: the last alternative anchored at the end, "Home.md$"
file_exclusion_re_anchored ==
    << <<Bol, Lit("."), AnyStar, Eol>>,
       <<Bol, Lit("_"), Lit("Sidebar"), Lit("."), Lit("md"), Eol>>,
       <<Bol, Lit("_"), Lit("Footer"), AnyChar, Lit("md"), Eol>>,
       <<Lit("Home"), AnyChar, Lit("md"), Eol>> >>

\* r"^\..*$|^_Sidebar\.md$|^_Footer.md$|Home.md": the alternatives in order;
\* an unescaped "." of the source is AnyChar, "\." is the literal dot.
file_exclusion_re ==
    << <<Bol, Lit("."), AnyStar, Eol>>,
       <<Bol, Lit("_"), Lit("Sidebar"), Lit("."), Lit("md"), Eol>>,
       <<Bol, Lit("_"), Lit("Footer"), AnyChar, Lit("md"), Eol>>,
       <<Lit("Home"), AnyChar, Lit("md")>> >>

\* Whether the pattern elements pat match s from offset i on (i atoms
\* before the match position).  "." and ".*" do not cross a newline, "$"
\* holds at the end and before a final newline, "^" at offset 0 only.  A "."
\* consumes a one-character atom: no atom of the alphabet continues, after
\* its first character, with the text that follows a "." in the pattern.
RECURSIVE Matches(_, _, _)
Matches(pat, s, i) ==
    IF pat = <<>> THEN TRUE
    ELSE LET e == Head(pat)
             rest == Tail(pat)
         IN  CASE e.t = "bol" -> i = 0 /\ Matches(rest, s, i)
               [] e.t = "eol" ->
                    /\ \/ i = Len(s)
                       \/ i = Len(s) - 1 /\ s[Len(s)] = NL
                    /\ Matches(rest, s, i)
               [] e.t = "lit" ->
                    i < Len(s) /\ s[i + 1] = e.a /\ Matches(rest, s, i + 1)
               [] e.t = "any" ->
                    /\ i < Len(s)
                    /\ s[i + 1] \in OneChar \ {NL}
                    /\ Matches(rest, s, i + 1)
               [] e.t = "anystar" ->
                    \E k \in i..Len(s) :
                        /\ \A j \in (i + 1)..k : s[j] # NL
                        /\ Matches(rest, s, k)

\* Pattern.search: a match from any offset.
re_search(re, s) ==
    \E start \in 0..Len(s) : \E n \in 1..Len(re) : Matches(re[n], s, start)

\* Pattern.match, src line 94: a match from the start of the string only.
re_match(re, s) == \E n \in 1..Len(re) : Matches(re[n], s, 0)

--------------------------------------------------------------------------
(* Strings *)

Whitespace == {SP, NL}

\* str.split() with no argument: the maximal runs of non-whitespace
RECURSIVE SplitWs(_, _)
SplitWs(s, cur) ==
    IF s = <<>> THEN (IF cur = <<>> THEN <<>> ELSE <<cur>>)
    ELSE IF Head(s) \in Whitespace
         THEN (IF cur = <<>> THEN <<>> ELSE <<cur>>) \o SplitWs(Tail(s), <<>>)
         ELSE SplitWs(Tail(s), Append(cur, Head(s)))

split(s) == SplitWs(s, <<>>)

\* str.split("-"): the pieces between the dashes, the empty ones kept
RECURSIVE SplitAt(_, _, _)
SplitAt(s, sep, cur) ==
    IF s = <<>> THEN <<cur>>
    ELSE IF Head(s) = sep THEN <<cur>> \o SplitAt(Tail(s), sep, <<>>)
    ELSE SplitAt(Tail(s), sep, Append(cur, Head(s)))

split_dash(s) == SplitAt(s, "-", <<>>)

\* src lines 18-19: str.translate with a one-entry table
dash_to_space(s) == [i \in 1..Len(s) |-> IF s[i] = "-" THEN SP ELSE s[i]]
underscore_to_space(s) == [i \in 1..Len(s) |-> IF s[i] = "_" THEN SP ELSE s[i]]

\* os.path.splitext(p)[0] for a name without a directory separator: the
\* name up to its last dot, unless only dots come before that dot.
splitext0(p) ==
    LET dots == {i \in 1..Len(p) : p[i] = "."}
    IN  IF dots = {} THEN p
        ELSE LET dotIndex == CHOOSE i \in dots : \A j \in dots : j <= i
             IN  IF \E k \in 1..(dotIndex - 1) : p[k] # "."
                 THEN SubSeq(p, 1, dotIndex - 1)
                 ELSE p

\* '#' * level
Hashes(level) == [i \in 1..level |-> "#"]

--------------------------------------------------------------------------
(* _scan_line_for_tags, src lines 119-132 *)

startswith_Tags(line) == Len(line) >= 2 /\ line[1] = "Tags:" /\ line[2] = SP

_scan_line_for_tags(line_to_scan) ==
    IF startswith_Tags(line_to_scan)
    THEN LET toks == split(line_to_scan)
         IN  IF toks = <<>> THEN <<>> ELSE Tail(toks)
    ELSE <<>>

--------------------------------------------------------------------------
(* The tag tree, src lines 85-87 and 135-161.                              *)
(* A Python value of the tree is a set of pages or a dict, one record      *)
(* shape for both: isset tells which; pages are a set's members, items a   *)
(* dict's entries.  The key "untagged" of a dict lives among its tag keys. *)

PySet(S) == [isset |-> TRUE, pages |-> S, items |-> <<>>]
PyDict(f) == [isset |-> FALSE, pages |-> {}, items |-> f]

\* {"untagged": set()}
NewNode == PyDict(UNTAGGED :> PySet({}))

\* dict.setdefault(key, default), the value it returns
setdefault(d, key, default) ==
    IF key \in DOMAIN d.items THEN d.items[key] ELSE default

\* Whether _add_page_to_tag_dict raises: line 160 or line 161 calls
\* setdefault on a set (AttributeError), or line 161 calls add on a dict.
RECURSIVE add_page_raises(_, _)
add_page_raises(segs, current_dict) ==
    IF current_dict.isset THEN TRUE
    ELSE IF segs = <<>>
         THEN ~ setdefault(current_dict, UNTAGGED, PySet({})).isset
         ELSE add_page_raises(Tail(segs),
                              setdefault(current_dict, Head(segs), NewNode))

\* The dict after lines 159-161, when they do not raise
RECURSIVE add_page_walk(_, _, _)
add_page_walk(page, segs, current_dict) ==
    IF segs = <<>>
    THEN LET u == setdefault(current_dict, UNTAGGED, PySet({}))
         IN  PyDict((UNTAGGED :> PySet(u.pages \cup {page})) @@ current_dict.items)
    ELSE LET child == setdefault(current_dict, Head(segs), NewNode)
         IN  PyDict((Head(segs) :> add_page_walk(page, Tail(segs), child))
                    @@ current_dict.items)

_add_page_to_tag_dict(page, tag_seq, tag_dict) ==
    add_page_walk(page, split_dash(tag_seq), tag_dict)

_add_page_to_tag_dict_raises(tag_seq, tag_dict) ==
    add_page_raises(split_dash(tag_seq), tag_dict)

\* for one_tag in tags_list: _add_page_to_tag_dict(fn, one_tag, tag_tree),
\* src lines 110-111, when no call raises
RECURSIVE add_tags(_, _, _)
add_tags(fn, tags_list, tag_tree) ==
    IF tags_list = <<>> THEN tag_tree
    ELSE add_tags(fn, Tail(tags_list),
                  _add_page_to_tag_dict(fn, Head(tags_list), tag_tree))

\* whether one of the calls of lines 110-111 raises
RECURSIVE add_tags_raises(_, _, _)
add_tags_raises(fn, tags_list, tag_tree) ==
    IF tags_list = <<>> THEN FALSE
    ELSE \/ _add_page_to_tag_dict_raises(Head(tags_list), tag_tree)
         \/ add_tags_raises(fn, Tail(tags_list),
                            _add_page_to_tag_dict(fn, Head(tags_list), tag_tree))

--------------------------------------------------------------------------
(* _render_tag_tree, src lines 164-188 *)

\* src lines 178-180
LinkLine(one_filename) ==
    LET stripped_filename == splitext0(one_filename)
        munged_filename == dash_to_space(stripped_filename)
    IN  <<"[">> \o munged_filename \o <<"](wiki/">> \o stripped_filename
            \o <<")", NL, NL>>

\* src line 185
HeadingLine(one_tag, level) ==
    Hashes(level) \o <<SP>> \o underscore_to_space(one_tag) \o <<NL, NL>>

\* src lines 182-183: sorted(tag_tree.keys()) with "untagged" removed
sub_tags_of(tag_tree) ==
    LET keys == sorted(DOMAIN tag_tree.items)
    IN  SelectSeq(keys, LAMBDA k : k # UNTAGGED)

RECURSIVE _render_tag_tree(_, _)
_render_tag_tree(tag_tree, level) ==
    LET files == sorted(tag_tree.items[UNTAGGED].pages)
        sub_tags == sub_tags_of(tag_tree)
    IN  Concat([i \in 1..Len(files) |-> LinkLine(files[i])])
        \o Concat([i \in 1..Len(sub_tags) |->
                     HeadingLine(sub_tags[i], level)
                     \o _render_tag_tree(tag_tree.items[sub_tags[i]], level + 1)])

--------------------------------------------------------------------------
(* State *)

VARIABLES
    fs,             \* the working directory: entry name -> [is_file, text]
    pc,             \* where the running call stands
    ret,            \* where generate_page_index returns to
    rpos,           \* old_home_md: atoms read so far
    wpos,           \* new_home_md: the write position
    files_to_scan,  \* src lines 91-95
    fidx,           \* fileinput: the index of the current file
    lpos,           \* fileinput: atoms of the current file read so far
    tag_tree,       \* src lines 85-87
    result,         \* what generate_page_index last returned
    runs,           \* calls of insert_page_index started
    before,         \* history: the text of Home.md when the running call began
    after           \* history: the text of Home.md at the end of each completed call

vars == <<fs, pc, ret, rpos, wpos, files_to_scan, fidx, lpos, tag_tree,
          result, runs, before, after>>

File(t) == [is_file |-> TRUE, text |-> t]
Directory == [is_file |-> FALSE, text |-> <<>>]

scan_vars == <<files_to_scan, fidx, lpos, tag_tree, result>>
splice_vars == <<rpos, wpos, runs, before, after>>

\* The sequences that list the members of S once each
Orders(S) ==
    {s \in [1..Cardinality(S) -> S] :
        \A i, j \in 1..Cardinality(S) : i # j => s[i] # s[j]}

--------------------------------------------------------------------------
(* generate_page_index, src lines 78-116 *)

\* src line 84
Header == start_marker \o <<NL, "#", SP, "Page Index", NL, NL>>

\* src line 94
Scannable(name) == fs[name].is_file /\ ~ re_match(file_exclusion_re, name)

\* src lines 84-95; scandir lists the entries in any order
GenStart ==
    /\ pc = "generate"
    /\ tag_tree' = NewNode
    /\ files_to_scan' \in Orders({n \in DOMAIN fs : Scannable(n)})
    /\ fidx' = 1
    /\ lpos' = 0
    /\ pc' = "scan"
    /\ UNCHANGED <<fs, ret, result, splice_vars>>

\* fileinput: the file and offset of the next line, past the files that are
\* exhausted or empty; f beyond the list when no line is left.  An empty
\* list reads standard input, which is at end of file.
RECURSIVE NextAt(_, _)
NextAt(f, p) ==
    IF f > Len(files_to_scan) THEN [f |-> f, p |-> 0]
    ELSE IF readline(fs[files_to_scan[f]].text, p) # <<>> THEN [f |-> f, p |-> p]
    ELSE NextAt(f + 1, 0)

HasLine == NextAt(fidx, lpos).f <= Len(files_to_scan)
\* fileinput.filename(), src line 102
fn == files_to_scan[NextAt(fidx, lpos).f]
one_line == readline(fs[fn].text, NextAt(fidx, lpos).p)

\* tag_tree["untagged"].add(fn), src line 105
add_untagged(tree, page) ==
    PyDict((UNTAGGED :> PySet(tree.items[UNTAGGED].pages \cup {page})) @@ tree.items)

\* tag_tree["untagged"].discard(fn), src line 109
discard_untagged(tree, page) ==
    PyDict((UNTAGGED :> PySet(tree.items[UNTAGGED].pages \ {page})) @@ tree.items)

\* One pass of the loop of line 101 over a line without tags
ScanUntagged ==
    /\ pc = "scan"
    /\ HasLine
    /\ Len(_scan_line_for_tags(one_line)) = 0
    /\ tag_tree' = add_untagged(tag_tree, fn)
    /\ fidx' = NextAt(fidx, lpos).f
    /\ lpos' = NextAt(fidx, lpos).p + Len(one_line)
    /\ UNCHANGED <<fs, pc, ret, files_to_scan, result, splice_vars>>

\* Mutant: line 112, fileinput.nextfile(), left out
ScanTagged_NoNextfile ==
    /\ pc = "scan"
    /\ HasLine
    /\ LET tags_list == _scan_line_for_tags(one_line)
           cleared == discard_untagged(add_untagged(tag_tree, fn), fn)
       IN  /\ Len(tags_list) > 0
           /\ ~ add_tags_raises(fn, tags_list, cleared)
           /\ tag_tree' = add_tags(fn, tags_list, cleared)
    /\ fidx' = NextAt(fidx, lpos).f
    /\ lpos' = NextAt(fidx, lpos).p + Len(one_line)
    /\ UNCHANGED <<fs, pc, ret, files_to_scan, result, splice_vars>>

\* One pass over a line with tags, src lines 105-112
ScanTagged ==
    /\ pc = "scan"
    /\ HasLine
    /\ LET tags_list == _scan_line_for_tags(one_line)
           cleared == discard_untagged(add_untagged(tag_tree, fn), fn)
       IN  /\ Len(tags_list) > 0
           /\ ~ add_tags_raises(fn, tags_list, cleared)
           /\ tag_tree' = add_tags(fn, tags_list, cleared)
    /\ fidx' = NextAt(fidx, lpos).f + 1
    /\ lpos' = 0
    /\ UNCHANGED <<fs, pc, ret, files_to_scan, result, splice_vars>>

\* One pass over a line with tags where line 160 or 161 raises
ScanRaise ==
    /\ pc = "scan"
    /\ HasLine
    /\ LET tags_list == _scan_line_for_tags(one_line)
           cleared == discard_untagged(add_untagged(tag_tree, fn), fn)
       IN  /\ Len(tags_list) > 0
           /\ add_tags_raises(fn, tags_list, cleared)
    /\ pc' = "raised"
    /\ UNCHANGED <<fs, ret, scan_vars, splice_vars>>

\* The loop is over: src lines 114-116
ScanEnd ==
    /\ pc = "scan"
    /\ ~ HasLine
    /\ result' = Header \o _render_tag_tree(tag_tree, 2) \o end_marker
    /\ files_to_scan' = <<>>
    /\ fidx' = 1
    /\ lpos' = 0
    /\ pc' = ret
    /\ UNCHANGED <<fs, ret, tag_tree, splice_vars>>

generate_page_index == GenStart \/ ScanUntagged \/ ScanTagged \/ ScanRaise \/ ScanEnd

--------------------------------------------------------------------------
(* insert_page_index, src lines 25-75 *)

old_text == fs[HomeMdOld].text
new_text == fs[HomeMd].text

\* new_home_md.write(s)
WriteNew(s) ==
    /\ fs' = [fs EXCEPT ![HomeMd] = File(write(new_text, wpos, s))]
    /\ wpos' = wpos + Len(s)

\* Mutant: a rename that does not replace an existing Home.md.old
Rename_KeepBackup ==
    /\ pc = "insert"
    /\ HomeMd \in DOMAIN fs
    /\ fs' = [n \in DOMAIN fs \cup {HomeMdOld} |->
                 IF n = HomeMd THEN File(<<>>)
                 ELSE IF n = HomeMdOld /\ n \notin DOMAIN fs THEN fs[HomeMd]
                 ELSE fs[n]]
    /\ before' = fs[HomeMd].text
    /\ rpos' = 0
    /\ wpos' = 0
    /\ pc' = "preamble"
    /\ UNCHANGED <<ret, scan_vars, runs, after>>

\* src lines 35-37: rename, then create Home.md and open the backup
Rename ==
    /\ pc = "insert"
    /\ HomeMd \in DOMAIN fs
    /\ fs' = [n \in DOMAIN fs \cup {HomeMdOld} |->
                 IF n = HomeMd THEN File(<<>>)
                 ELSE IF n = HomeMdOld THEN fs[HomeMd]
                 ELSE fs[n]]
    /\ before' = fs[HomeMd].text
    /\ rpos' = 0
    /\ wpos' = 0
    /\ pc' = "preamble"
    /\ UNCHANGED <<ret, scan_vars, runs, after>>

\* src line 35 with no Home.md: FileNotFoundError
RenameFails ==
    /\ pc = "insert"
    /\ HomeMd \notin DOMAIN fs
    /\ pc' = "raised"
    /\ UNCHANGED <<fs, ret, scan_vars, splice_vars>>

\* src lines 40-47, a line before the page index
PreambleCopy ==
    /\ pc = "preamble"
    /\ LET line == readline(old_text, rpos)
       IN  /\ line # <<>>
           /\ line # start_marker
           /\ WriteNew(line)
           /\ rpos' = rpos + Len(line)
    /\ UNCHANGED <<pc, ret, scan_vars, runs, before, after>>

\* src lines 41-43, the start marker
PreambleFound ==
    /\ pc = "preamble"
    /\ readline(old_text, rpos) = start_marker
    /\ rpos' = rpos + Len(start_marker)
    /\ pc' = "skip"
    /\ UNCHANGED <<fs, ret, scan_vars, wpos, runs, before, after>>

\* Mutant: line 55, new_home_md.seek(0), left out
PreambleEOF_NoSeek ==
    /\ pc = "preamble"
    /\ readline(old_text, rpos) = <<>>
    /\ pc' = "generate"
    /\ ret' = "case_a"
    /\ UNCHANGED <<fs, scan_vars, rpos, wpos, runs, before, after>>

\* src lines 40, 49, 55 and the call of line 56: EOF without a start marker
PreambleEOF ==
    /\ pc = "preamble"
    /\ readline(old_text, rpos) = <<>>
    /\ wpos' = 0
    /\ pc' = "generate"
    /\ ret' = "case_a"
    /\ UNCHANGED <<fs, scan_vars, rpos, runs, before, after>>

\* src lines 56-57
WriteIndexA ==
    /\ pc = "case_a"
    /\ WriteNew(result)
    /\ rpos' = 0
    /\ pc' = "rewrite"
    /\ UNCHANGED <<ret, scan_vars, runs, before, after>>

\* Mutant: the rewrite of the old content leaves its marker lines out
RewriteCopy_DropMarkers ==
    /\ pc = "rewrite"
    /\ LET line == readline(old_text, rpos)
       IN  /\ line # <<>>
           /\ IF line \in {start_marker, end_marker}
              THEN UNCHANGED <<fs, wpos>>
              ELSE WriteNew(line)
           /\ rpos' = rpos + Len(line)
    /\ UNCHANGED <<pc, ret, scan_vars, runs, before, after>>

\* src lines 58-59
RewriteCopy ==
    /\ pc = "rewrite"
    /\ LET line == readline(old_text, rpos)
       IN  /\ line # <<>>
           /\ WriteNew(line)
           /\ rpos' = rpos + Len(line)
    /\ UNCHANGED <<pc, ret, scan_vars, runs, before, after>>

\* src line 60
RewriteDone ==
    /\ pc = "rewrite"
    /\ readline(old_text, rpos) = <<>>
    /\ pc' = "done"
    /\ after' = Append(after, new_text)
    /\ UNCHANGED <<fs, ret, scan_vars, rpos, wpos, runs, before>>

\* src lines 63-65, a line of the old page index
SkipLine ==
    /\ pc = "skip"
    /\ LET line == readline(old_text, rpos)
       IN  /\ line # <<>>
           /\ line # end_marker
           /\ rpos' = rpos + Len(line)
    /\ UNCHANGED <<fs, pc, ret, scan_vars, wpos, runs, before, after>>

\* Mutant: the break of line 65 left out, the end marker is skipped like
\* any other line
SkipFound_NoBreak ==
    /\ pc = "skip"
    /\ readline(old_text, rpos) = end_marker
    /\ rpos' = rpos + Len(end_marker)
    /\ UNCHANGED <<fs, pc, ret, scan_vars, wpos, runs, before, after>>

\* src lines 64-65 and the call of line 71: the end marker
SkipFound ==
    /\ pc = "skip"
    /\ readline(old_text, rpos) = end_marker
    /\ rpos' = rpos + Len(end_marker)
    /\ pc' = "generate"
    /\ ret' = "case_b"
    /\ UNCHANGED <<fs, scan_vars, wpos, runs, before, after>>

\* src line 63 and the call of line 71: EOF without an end marker
SkipEOF ==
    /\ pc = "skip"
    /\ readline(old_text, rpos) = <<>>
    /\ pc' = "generate"
    /\ ret' = "case_b"
    /\ UNCHANGED <<fs, scan_vars, rpos, wpos, runs, before, after>>

\* src line 71
WriteIndexB ==
    /\ pc = "case_b"
    /\ WriteNew(result)
    /\ pc' = "postamble"
    /\ UNCHANGED <<ret, scan_vars, rpos, runs, before, after>>

\* src lines 74-75
PostambleCopy ==
    /\ pc = "postamble"
    /\ LET line == readline(old_text, rpos)
       IN  /\ line # <<>>
           /\ WriteNew(line)
           /\ rpos' = rpos + Len(line)
    /\ UNCHANGED <<pc, ret, scan_vars, runs, before, after>>

\* src line 74 at EOF: the function returns
PostambleDone ==
    /\ pc = "postamble"
    /\ readline(old_text, rpos) = <<>>
    /\ pc' = "done"
    /\ after' = Append(after, new_text)
    /\ UNCHANGED <<fs, ret, scan_vars, rpos, wpos, runs, before>>

insert_page_index ==
    \/ Rename \/ RenameFails
    \/ PreambleCopy \/ PreambleFound \/ PreambleEOF
    \/ WriteIndexA \/ RewriteCopy \/ RewriteDone
    \/ SkipLine \/ SkipFound \/ SkipEOF
    \/ WriteIndexB \/ PostambleCopy \/ PostambleDone

--------------------------------------------------------------------------
(* Inputs *)

MaxHomeLines == 3
MaxPageLines == 2
MaxNames == 2
MaxRuns == 2

\* The texts of at most n lines of L, each followed by one of the endings
TextsOf(L, n, endings) ==
    {Concat(ls) \o e : ls \in UNION {[1..k -> L] : k \in 0..n}, e \in endings}

\* Lines of a home page: the markers, a plain line, a start marker with a
\* trailing space; endings: nothing, or a last line without its newline.
HomeLines == {start_marker, end_marker, <<"a", NL>>, <<StartText, SP, NL>>}
HomeEndings == {<<>>, <<StartText>>, <<"a">>}

\* Longer home pages: text around a whole index region, and a page without
\* markers that is longer than the generated index.
LongHomes ==
    { <<"b", NL>> \o start_marker \o <<"x", NL>> \o end_marker \o <<"a", NL>>,
      <<"b", NL>> \o start_marker \o <<"x", NL>>,
      [i \in 1..40 |-> IF i % 2 = 1 THEN "a" ELSE NL] }

HomeTexts == TextsOf(HomeLines, MaxHomeLines, HomeEndings) \cup LongHomes

A_md == <<"A", ".", "md">>
A_b_md == <<"A", "-", "b", ".", "md">>
B_md == <<"B", ".", "md">>
C_md == <<"C", ".", "md">>

Tags(toks) == <<"Tags:", SP>> \o toks \o <<NL>>

\* The wiki pages beside the home page, for the runs of insert_page_index
InsertPages ==
    { <<>>,
      A_md :> File(<<"x", NL>>),
      (A_md :> File(Tags(<<"B", "-", "C", SP, "A">>)))
        @@ (A_b_md :> File(<<"x", NL>> \o Tags(<<"B">>)))
        @@ (B_md :> File(<<>>)),
      (A_md :> File(<<"x", NL>>)) @@ (B_md :> File(Tags(<<"untagged">>))) }

\* Lines of a wiki page
PageLines ==
    { <<"x", NL>>,
      Tags(<<>>),
      Tags(<<"A">>),
      Tags(<<"C", "-", "B", SP, SP, "A", "_", "b">>),
      Tags(<<"untagged">>),
      Tags(<<"A", "-", "-", "B", SP, "-">>),
      <<"Tags:", "A", NL>> }
PageEndings == {<<>>, <<"Tags:", SP, "B">>}

PageTexts == TextsOf(PageLines, MaxPageLines, PageEndings)

\* The pages around the page whose text varies
Backgrounds ==
    { <<>>,
      (A_md :> File(<<"x", NL>>)) @@ (A_b_md :> File(<<"x", NL, "x">>))
        @@ (C_md :> File(Tags(<<"A">>))),
      (A_md :> File(Tags(<<"C", "-", "A", SP, "C", "-", "B", "-", "A">>)))
        @@ (C_md :> File(<<>>)) }

ContentDirs ==
    {(B_md :> File(t)) @@ bg : t \in PageTexts, bg \in Backgrounds}

\* Entry names around the exclusion pattern
ExclNames ==
    { HomeMd, HomeMdOld,
      <<"x", "Home", ".", "md">>,
      <<"Home", "X", "md">>,
      <<"Home", ".", "md", "x">>,
      <<"Home", "md">>,
      <<"A", "-", "Home", ".", "md", ".", "md">>,
      <<"_", "Sidebar", ".", "md">>,
      <<"_", "Sidebar", "X", "md">>,
      <<"_", "Sidebar", ".", "md", "x">>,
      <<"x", "_", "Sidebar", ".", "md">>,
      <<"_", "Footer", ".", "md">>,
      <<"_", "Footer", "X", "md">>,
      <<"x", "_", "Footer", ".", "md">>,
      <<"_", "Footer", ".", "md", ".", "md">>,
      <<".", "x">>,
      <<".">>,
      <<"x", ".", "x">>,
      A_md }

NameDirs ==
    {[n \in N |-> IF d THEN Directory ELSE File(<<"x", NL>>)] :
        N \in {M \in SUBSET ExclNames : Cardinality(M) <= MaxNames},
        d \in BOOLEAN}

--------------------------------------------------------------------------
(* Specifications *)

InitCommon ==
    /\ rpos = 0
    /\ wpos = 0
    /\ files_to_scan = <<>>
    /\ fidx = 1
    /\ lpos = 0
    /\ tag_tree = NewNode
    /\ result = <<>>
    /\ runs = 1
    /\ before = <<>>
    /\ after = <<>>

\* A wiki directory, with or without Home.md and an earlier backup, and a
\* call of insert_page_index
Init ==
    /\ \E pages \in InsertPages :
       \E home \in {(HomeMd :> File(t)) : t \in HomeTexts} \cup {<<>>} :
       \E old \in {<<>>, HomeMdOld :> File(<<"o", NL>> \o start_marker)} :
          fs = home @@ old @@ pages
    /\ pc = "insert"
    /\ ret = "none"
    /\ InitCommon

\* The caller calls insert_page_index again
Again ==
    /\ pc = "done"
    /\ runs < MaxRuns
    /\ runs' = runs + 1
    /\ pc' = "insert"
    /\ UNCHANGED <<fs, ret, scan_vars, rpos, wpos, before, after>>

Next == insert_page_index \/ generate_page_index \/ Again

Spec == Init /\ [][Next]_vars

\* A directory and a call of generate_page_index
InitIndex ==
    /\ fs \in ContentDirs \cup NameDirs
    /\ pc = "generate"
    /\ ret = "returned"
    /\ InitCommon

NextIndex == generate_page_index

SpecIndex == InitIndex /\ [][NextIndex]_vars

--------------------------------------------------------------------------
(* Vocabulary of the properties *)

\* The lines of a text, each with its newline, the last one maybe without
RECURSIVE LinesOf(_)
LinesOf(t) ==
    IF t = <<>> THEN <<>>
    ELSE LET nls == {i \in 1..Len(t) : t[i] = NL}
             cut == IF nls = {} THEN Len(t)
                    ELSE CHOOSE i \in nls : \A j \in nls : i <= j
         IN  <<SubSeq(t, 1, cut)>> \o LinesOf(SubSeq(t, cut + 1, Len(t)))

\* The index of the first line of ls after line i that equals m, 0 if none
FirstAfter(ls, i, m) ==
    LET hits == {j \in (i + 1)..Len(ls) : ls[j] = m}
    IN  IF hits = {} THEN 0 ELSE CHOOSE j \in hits : \A k \in hits : j <= k

HasStartMarker(t) == FirstAfter(LinesOf(t), 0, start_marker) # 0

\* The lines before the first start marker
PreambleOf(t) ==
    LET ls == LinesOf(t)
    IN  SubSeq(ls, 1, FirstAfter(ls, 0, start_marker) - 1)

\* Whether an end marker follows the first start marker
HasEndMarker(t) ==
    LET ls == LinesOf(t)
    IN  FirstAfter(ls, FirstAfter(ls, 0, start_marker), end_marker) # 0

\* The lines after the first end marker that follows the first start marker
PostambleOf(t) ==
    LET ls == LinesOf(t)
        e == FirstAfter(ls, FirstAfter(ls, 0, start_marker), end_marker)
    IN  IF e = 0 THEN <<>> ELSE SubSeq(ls, e + 1, Len(ls))

\* How many lines of the sequence ls equal m
CountOf(ls, m) == Cardinality({i \in 1..Len(ls) : ls[i] = m})

Completed == pc = "done"

--------------------------------------------------------------------------
(* C1 *)

\* C1: when the old Home.md has a start-marker line, the new Home.md of a
\* completed call is the old lines before the first start marker, then the
\* generated index, then the old lines after the first end marker that
\* follows that start marker; nothing follows the index when no end marker
\* follows.
C1_SpliceWithMarker ==
    (Completed /\ HasStartMarker(before)) =>
        new_text = Concat(PreambleOf(before)) \o result
                       \o Concat(PostambleOf(before))

\* A completed call on a page with text before the start marker, an old
\* index region, and text after its end marker
C1_Witness ==
    /\ Completed
    /\ HasStartMarker(before)
    /\ HasEndMarker(before)
    /\ PreambleOf(before) # <<>>
    /\ PostambleOf(before) # <<>>
    /\ Len(result) > Len(Header \o end_marker)

--------------------------------------------------------------------------
(* C2 *)

\* C2: when the old Home.md has no start-marker line, the new Home.md of a
\* completed call is the generated index followed by the whole old text,
\* and nothing else.
C2_SpliceNoMarker ==
    (Completed /\ ~ HasStartMarker(before)) =>
        new_text = result \o before

\* A completed call on a page without a start marker that is longer than
\* the generated index
C2_Witness ==
    /\ Completed
    /\ ~ HasStartMarker(before)
    /\ Len(before) > Len(result)
    /\ Len(result) > Len(Header \o end_marker)

--------------------------------------------------------------------------
(* C3 *)

\* The marker lines of the old text that lie outside the replaced region:
\* all of them when there is no start marker
StrayMarkers(t, m) ==
    IF HasStartMarker(t)
    THEN CountOf(PreambleOf(t), m) + CountOf(PostambleOf(t), m)
    ELSE CountOf(LinesOf(t), m)

\* C3 as stated: after a completed call the new Home.md holds exactly one
\* start-marker line and one end-marker line, those of the generated index.
C3_NoOldMarkerCopied ==
    Completed =>
        /\ CountOf(LinesOf(new_text), start_marker) = 1
        /\ CountOf(LinesOf(new_text), end_marker) = 1

\* C3 amended: the first start-marker line, the first end-marker line after
\* it and the lines between them are not copied; the marker lines of the
\* new Home.md are the two of the generated index and the marker lines of
\* the old text outside that region.
C3_RegionMarkersNotCopied ==
    Completed =>
        /\ CountOf(LinesOf(new_text), start_marker)
             = 1 + StrayMarkers(before, start_marker)
        /\ CountOf(LinesOf(new_text), end_marker)
             = 1 + StrayMarkers(before, end_marker)

\* A completed call on a page with an index region and a marker after it
C3_Witness ==
    /\ Completed
    /\ HasStartMarker(before)
    /\ HasEndMarker(before)
    /\ CountOf(PostambleOf(before), start_marker) > 0

--------------------------------------------------------------------------
(* C9 *)

\* C9: from the rename to the end of a call, Home.md.old exists and holds
\* the text Home.md had when the call began.
C9_BackupHoldsOldHome ==
    pc \in {"preamble", "skip", "generate", "scan", "case_a", "case_b",
            "rewrite", "postamble", "done"} =>
        /\ HomeMdOld \in DOMAIN fs
        /\ fs[HomeMdOld].is_file
        /\ old_text = before

\* The second completed call: the backup of the first one was overwritten
C9_Witness ==
    /\ Completed
    /\ Len(after) = 2
    /\ old_text = after[1]
    /\ Len(old_text) > Len(result)

--------------------------------------------------------------------------
(* C10 *)

\* C10: every later completed call leaves Home.md as the first one left
\* it, and no scan lists Home.md or Home.md.old.
C10_Idempotent ==
    /\ \A i \in 1..Len(after) : after[i] = after[1]
    /\ \A i \in 1..Len(files_to_scan) :
           files_to_scan[i] \notin {HomeMd, HomeMdOld}

\* Two completed calls on a page that had text around an index region
C10_Witness ==
    /\ Completed
    /\ Len(after) = 2
    /\ Len(result) > Len(Header \o end_marker)
    /\ Len(after[1]) > Len(result)
    /\ HasStartMarker(before)

--------------------------------------------------------------------------
(* Vocabulary of the properties of the scan *)

\* The loop of line 101 has ended and line 114 has not run yet
ScanFinished == pc = "scan" /\ ~ HasLine

\* A line that starts with "Tags: "
Qualifies(line) == Len(line) >= 2 /\ SubSeq(line, 1, 2) = <<"Tags:", SP>>

\* The whitespace-separated tokens of a qualifying line after its prefix
TokensAfterPrefix(line) == split(SubSeq(line, 3, Len(line)))

\* The first line of the text that satisfies P, <<>> if none does
FirstLine(text, P(_)) ==
    LET ls == LinesOf(text)
        hits == {i \in 1..Len(ls) : P(ls[i])}
    IN  IF hits = {} THEN <<>>
        ELSE ls[CHOOSE i \in hits : \A j \in hits : i <= j]

\* The paths (sequences of tag segments from the root) of the nodes whose
\* untagged set holds the page; <<>> is the root
RECURSIVE PathsOf(_, _)
PathsOf(tree, page) ==
    (IF page \in tree.items[UNTAGGED].pages THEN {<<>>} ELSE {})
    \cup UNION {{<<k>> \o q : q \in PathsOf(tree.items[k], page)} :
                   k \in DOMAIN tree.items \ {UNTAGGED}}

ScannedPages == {files_to_scan[i] : i \in 1..Len(files_to_scan)}

--------------------------------------------------------------------------
(* C4 *)

\* C4 as stated: after the scan, every scanned page without a line that
\* starts with "Tags: " is in the tree exactly once, in the root's untagged
\* set.
C4_UntaggedPageInRootOnce ==
    ScanFinished =>
        \A page \in ScannedPages :
            FirstLine(fs[page].text, Qualifies) = <<>> =>
                PathsOf(tag_tree, page) = {<<>>}

--------------------------------------------------------------------------
(* C5 *)

\* C5 as stated: the scan does not raise, and after it every scanned page
\* whose tag line carries tokens is, for each token, in the untagged set of
\* the node at the end of the token's path, and not in the root's.
C5_TaggedPageAtLeaves ==
    /\ pc # "raised"
    /\ ScanFinished =>
         \A page \in ScannedPages :
            LET toks == TokensAfterPrefix(FirstLine(fs[page].text, Qualifies))
            IN  toks # <<>> =>
                   /\ \A i \in 1..Len(toks) :
                          split_dash(toks[i]) \in PathsOf(tag_tree, page)
                   /\ <<>> \notin PathsOf(tag_tree, page)

--------------------------------------------------------------------------
(* C6 *)

\* The tag paths the scan gave the page
TagPaths(page) == PathsOf(tag_tree, page) \ {<<>>}

PathsOfTokens(toks) == {split_dash(toks[i]) : i \in 1..Len(toks)}

\* C6 as stated: the tags of a scanned page are the tokens of the first
\* line that starts with "Tags: ", none when there is no such line, and no
\* later line gives a tag.
C6_TagsOfFirstPrefixedLine ==
    ScanFinished =>
        \A page \in ScannedPages :
            TagPaths(page) =
                PathsOfTokens(TokensAfterPrefix(FirstLine(fs[page].text, Qualifies)))

HasTokens(line) == Qualifies(line) /\ TokensAfterPrefix(line) # <<>>

\* C6 amended: the tags of a scanned page are the tokens of the first line
\* that starts with "Tags: " and has a token after the prefix, none when
\* there is no such line; the scan of the file stops at that line, a
\* prefixed line without tokens is passed over.
C6_TagsOfFirstLineWithTokens ==
    ScanFinished =>
        \A page \in ScannedPages :
            TagPaths(page) =
                PathsOfTokens(TokensAfterPrefix(FirstLine(fs[page].text, HasTokens)))

\* A scanned page with a prefixed line without tokens, then a line with a
\* tag, then another line with another tag
C6_Witness ==
    /\ ScanFinished
    /\ \E page \in ScannedPages :
          LET ls == LinesOf(fs[page].text)
          IN  /\ Len(ls) = 3
              /\ Qualifies(ls[1]) /\ ~ HasTokens(ls[1])
              /\ HasTokens(ls[2])
              /\ HasTokens(ls[3])
              /\ TokensAfterPrefix(ls[3]) # TokensAfterPrefix(ls[2])
              /\ TagPaths(page) = PathsOfTokens(TokensAfterPrefix(ls[2]))

--------------------------------------------------------------------------
(* C7 *)

Contains(s, sub) ==
    \E i \in 1..(Len(s) - Len(sub) + 1) : SubSeq(s, i, i + Len(sub) - 1) = sub

RegularFiles == {n \in DOMAIN fs : fs[n].is_file}

\* The rule as stated
StatedRule(name) ==
    \/ name[1] = "."
    \/ name = <<"_", "Sidebar", ".", "md">>
    \/ name = <<"_", "Footer", ".", "md">>
    \/ Contains(name, HomeMd)

\* C7 as stated: the scanned files are the regular files whose name does
\* not start with ".", is not _Sidebar.md or _Footer.md, and does not
\* contain Home.md.
C7_ExclusionAsStated ==
    pc = "scan" => ScannedPages = {n \in RegularFiles : ~ StatedRule(n)}

OtherChar(a) == a \in OneChar \ {NL}

\* The rule of the code
AmendedRule(name) ==
    \/ name[1] = "."
    \/ name = <<"_", "Sidebar", ".", "md">>
    \/ /\ Len(name) = 4
       /\ SubSeq(name, 1, 2) = <<"_", "Footer">>
       /\ OtherChar(name[3])
       /\ name[4] = "md"
    \/ /\ Len(name) >= 3
       /\ name[1] = "Home"
       /\ OtherChar(name[2])
       /\ name[3] = "md"

\* C7 amended: a regular file is left out of the scan iff its name starts
\* with ".", or is _Sidebar.md, or is _Footer, one character, md, or starts
\* with Home, one character, md.
C7_ExclusionOfTheCode ==
    pc = "scan" => ScannedPages = {n \in RegularFiles : ~ AmendedRule(n)}

\* A scan that lists a file whose name holds Home.md after its start
C7_Witness ==
    /\ pc = "scan"
    /\ <<"x", "Home", ".", "md">> \in ScannedPages

--------------------------------------------------------------------------
(* C8 *)

\* The members of S in ascending order
Ascending(S) ==
    CHOOSE s \in Orders(S) : \A i, j \in 1..Len(s) : i < j => StrLess(s[i], s[j])

TagKeys(node) == DOMAIN node.items \ {UNTAGGED}

\* The render the claim describes: the node's pages in ascending order of
\* file name, then each tag in ascending order under a heading of `level`
\* hashes, followed by its own render one level deeper.
RECURSIVE DescribedRender(_, _)
DescribedRender(node, level) ==
    LET pages == Ascending(node.items[UNTAGGED].pages)
        tags == Ascending(TagKeys(node))
    IN  Concat([i \in 1..Len(pages) |-> LinkLine(pages[i])])
        \o Concat([i \in 1..Len(tags) |->
                     [j \in 1..level |-> "#"] \o <<SP>>
                       \o underscore_to_space(tags[i]) \o <<NL, NL>>
                       \o DescribedRender(node.items[tags[i]], level + 1)])

\* The depths of the tag nodes below a node at depth d, in render order
RECURSIVE DepthsBelow(_, _)
DepthsBelow(node, d) ==
    LET tags == Ascending(TagKeys(node))
    IN  Concat([i \in 1..Len(tags) |->
                  <<d + 1>> \o DepthsBelow(node.items[tags[i]], d + 1)])

\* The number of "#" a line starts with
RECURSIVE LeadingHashes(_)
LeadingHashes(line) ==
    IF line # <<>> /\ Head(line) = "#" THEN 1 + LeadingHashes(Tail(line)) ELSE 0

\* The heading levels of a text, in order
HeadingLevels(text) ==
    LET ls == SelectSeq(LinesOf(text), LAMBDA l : LeadingHashes(l) > 0)
    IN  [i \in 1..Len(ls) |-> LeadingHashes(ls[i])]

RenderedTree == SubSeq(result, Len(Header) + 1, Len(result) - Len(end_marker))

\* C8: the returned index is the header, the described render of the tree
\* at level 2, and the end marker; the heading of a tag node at depth d has
\* d + 1 hashes.
C8_RenderOrderAndLevels ==
    pc = "returned" =>
        /\ result = Header \o DescribedRender(tag_tree, 2) \o end_marker
        /\ HeadingLevels(RenderedTree)
             = [i \in 1..Len(DepthsBelow(tag_tree, 0)) |->
                   DepthsBelow(tag_tree, 0)[i] + 1]

\* A returned index of a tree with two pages at the root, two root tags
\* and a tag below a root tag
C8_Witness ==
    /\ pc = "returned"
    /\ Cardinality(tag_tree.items[UNTAGGED].pages) >= 2
    /\ Cardinality(TagKeys(tag_tree)) >= 2
    /\ \E k \in TagKeys(tag_tree) : TagKeys(tag_tree.items[k]) # {}

==========================================================================
